---- MODULE Spec2Model ----
(***************************************************************************)
(* Release-notes action (src/index.js): the release-window resolution of   *)
(* run(), findHotfixRelatedTags and findPreviousReleaseTag, and the commit *)
(* classifier parseConventionalCommit / parseCommits.                      *)
(*                                                                         *)
(* JavaScript strings are modelled as sequences of one-character strings,  *)
(* so that split, startsWith, endsWith, parseInt, the regular expressions  *)
(* and the string comparison `<` are computed on the characters.           *)
(* null / undefined is the one-element tuple Null, which no string equals  *)
(* (every element of a string is a single character).                      *)
(***************************************************************************)
EXTENDS Integers, Sequences, FiniteSets

VARIABLES pc, currentTag, tagFormat, linearBaseUrl, isHotfix, tags,
          relatedHotfixes, releaseTags, releaseInfo, baseTag, compareTag,
          requests, commits, sections, posted, output, failure

vars == <<pc, currentTag, tagFormat, linearBaseUrl, isHotfix, tags,
          relatedHotfixes, releaseTags, releaseInfo, baseTag, compareTag,
          requests, commits, sections, posted, output, failure>>

\* ------------------------------------------------------------ bounds
\* Longest tag list a listTags response to findPreviousReleaseTag carries.
MaxReleaseTags == 3
\* Longest tag list a listTags response to findHotfixRelatedTags carries.
MaxHotfixTags == 4
\* Longest commit list a compareCommits response carries in the model.
MaxCommits == 2

\* ------------------------------------------------------- characters
Null == <<"null">>

DigitChars == {"0", "1", "2", "3", "4", "5", "6", "7", "8", "9"}

LowerChars == {"a", "b", "c", "d", "e", "f", "g", "h", "i", "j", "k", "l", "m",
               "n", "o", "p", "q", "r", "s", "t", "u", "v", "w", "x", "y", "z"}

UpperChars == {"A", "B", "C", "D", "E", "F", "G", "H", "I", "J", "K", "L", "M",
               "N", "O", "P", "Q", "R", "S", "T", "U", "V", "W", "X", "Y", "Z"}

\* \d
IsDigit(c) == c \in DigitChars

\* [A-Za-z]
IsLetter(c) == c \in LowerChars \cup UpperChars

\* \w
IsWordChar(c) == IsLetter(c) \/ IsDigit(c) \/ c = "_"

\* The line terminators `.` does not match (of the characters modelled).
IsLineTerminator(c) == c \in {"\n", "\r"}

\* \s (of the characters modelled)
IsSpace(c) == c \in {" ", "\t", "\n", "\r"}

DigitVal(c) ==
    CASE c = "0" -> 0 [] c = "1" -> 1 [] c = "2" -> 2 [] c = "3" -> 3
      [] c = "4" -> 4 [] c = "5" -> 5 [] c = "6" -> 6 [] c = "7" -> 7
      [] c = "8" -> 8 [] c = "9" -> 9

\* UTF-16 code unit of the characters a version string holds: "." is 46 and
\* the digits are 48..57.
CharCode(c) == IF c = "." THEN 46 ELSE 48 + DigitVal(c)

\* ---------------------------------------------------------- strings
\* s.substring from index i (1-based) to the end
From(s, i) == SubSeq(s, i, Len(s))

\* pat occurs in s at index i
OccursAt(s, pat, i) ==
    /\ i >= 1
    /\ i + Len(pat) - 1 <= Len(s)
    /\ SubSeq(s, i, i + Len(pat) - 1) = pat

\* s.indexOf(pat), 1-based; 0 when pat does not occur
IndexOf(s, pat) ==
    IF \E i \in 1..Len(s) : OccursAt(s, pat, i)
    THEN CHOOSE i \in 1..Len(s) :
            /\ OccursAt(s, pat, i)
            /\ \A j \in 1..(i - 1) : ~OccursAt(s, pat, j)
    ELSE 0

\* s.includes(pat)
Includes(s, pat) == IndexOf(s, pat) # 0

\* s.startsWith(pat)
StartsWith(s, pat) == Len(pat) <= Len(s) /\ SubSeq(s, 1, Len(pat)) = pat

\* s.endsWith(pat)
EndsWith(s, pat) ==
    Len(pat) <= Len(s) /\ SubSeq(s, Len(s) - Len(pat) + 1, Len(s)) = pat

\* s.split(sep) for a non-empty separator: the pieces between occurrences
RECURSIVE Split(_, _)
Split(s, sep) ==
    LET i == IndexOf(s, sep)
    IN  IF i = 0 THEN <<s>>
        ELSE <<SubSeq(s, 1, i - 1)>> \o Split(From(s, i + Len(sep)), sep)

\* arr[k] of a split result, 0-based as in the source; Null when undefined
Piece(arr, k) == IF k + 1 <= Len(arr) THEN arr[k + 1] ELSE Null

\* x || dflt for a string or undefined x: the empty string and undefined
\* are falsy
OrElse(x, dflt) == IF x = Null \/ x = <<>> THEN dflt ELSE x

\* a < b on two strings: by code unit, a proper prefix being smaller
RECURSIVE StringLess(_, _)
StringLess(a, b) ==
    IF b = <<>> THEN FALSE
    ELSE IF a = <<>> THEN TRUE
    ELSE IF Head(a) = Head(b) THEN StringLess(Tail(a), Tail(b))
    ELSE CharCode(Head(a)) < CharCode(Head(b))

\* ---------------------------------------------------------- numbers
\* A JavaScript number: an integer, or NaN.
NaN == [nan |-> TRUE, val |-> 0]

Num(n) == [nan |-> FALSE, val |-> n]

\* a < b on numbers: false when either is NaN
NumLess(a, b) == ~a.nan /\ ~b.nan /\ a.val < b.val

\* a - b on numbers
NumMinus(a, b) == IF a.nan \/ b.nan THEN NaN ELSE Num(a.val - b.val)

\* the length of the longest run of digits starting s
RECURSIVE DigitRun(_)
DigitRun(s) ==
    IF s # <<>> /\ IsDigit(Head(s)) THEN 1 + DigitRun(Tail(s)) ELSE 0

\* the value of a string of decimal digits
RECURSIVE DigitsValue(_)
DigitsValue(s) ==
    IF s = <<>> THEN 0
    ELSE 10 * DigitsValue(SubSeq(s, 1, Len(s) - 1)) + DigitVal(s[Len(s)])

\* s with its leading white space removed
RECURSIVE TrimStart(_)
TrimStart(s) ==
    IF s # <<>> /\ IsSpace(Head(s)) THEN TrimStart(Tail(s)) ELSE s

\* parseInt(s) with no radix: leading white space, an optional sign, then the
\* longest prefix of decimal digits; NaN when there is no digit.  (The hex
\* prefix 0x is not among the inputs of the model.)
ParseInt(s) ==
    LET t    == TrimStart(s)
        neg  == t # <<>> /\ Head(t) = "-"
        body == IF t # <<>> /\ Head(t) \in {"-", "+"} THEN Tail(t) ELSE t
        n    == DigitRun(body)
    IN  IF n = 0 THEN NaN
        ELSE Num((IF neg THEN -1 ELSE 1) * DigitsValue(SubSeq(body, 1, n)))

\* Number(s) of a string of digits, as in version.split(".").map(Number)
ToNumber(s) == DigitsValue(s)

\* ------------------------------------------------- string literals
\* "-hotfix"
HotfixMarker == <<"-", "h", "o", "t", "f", "i", "x">>

\* "-release"
ReleaseSuffix == <<"-", "r", "e", "l", "e", "a", "s", "e">>

\* "{tag}-release"
DefaultTagFormat == <<"{", "t", "a", "g", "}", "-", "r", "e", "l", "e", "a", "s", "e">>

\* "1"
One == <<"1">>

\* "."
Dot == <<".">>

\* ------------------------------------------------------- sequences
\* arr.map(f)
Map(arr, f(_)) == [i \in 1..Len(arr) |-> f(arr[i])]

\* arr.some(test)
Some(arr, test(_)) == \E i \in 1..Len(arr) : test(arr[i])

\* arr.findIndex(test), 1-based: the first element passing the test; 0 when
\* none does
FindIndex(arr, test(_)) ==
    IF Some(arr, test)
    THEN CHOOSE i \in 1..Len(arr) :
            /\ test(arr[i])
            /\ \A j \in 1..(i - 1) : ~test(arr[j])
    ELSE 0

\* every ordering of the elements of arr
Orderings(arr) ==
    {[i \in 1..Len(arr) |-> arr[p[i]]] :
        p \in {q \in [1..Len(arr) -> 1..Len(arr)] :
                  \A i, j \in 1..Len(arr) : q[i] = q[j] => i = j}}

\* --------------------------------------- findHotfixRelatedTags
\* hotfixTag.split("-hotfix")[0]
BaseVersion(hotfixTag) == Piece(Split(hotfixTag, HotfixMarker), 0)

\* parseInt(name.split("-hotfix")[1] || "1")
HotfixNumber(name) == ParseInt(OrElse(Piece(Split(name, HotfixMarker), 1), One))

\* currentHotfixNum
CurrentHotfixNum(hotfixTag) ==
    IF Includes(hotfixTag, HotfixMarker) THEN HotfixNumber(hotfixTag) ELSE Num(1)

\* `${baseVersion}-release`
BaseReleaseTag(hotfixTag) == BaseVersion(hotfixTag) \o ReleaseSuffix

\* tags.filter(startsWith `${baseVersion}-hotfix`).map({name, number}),
\* before the sort
HotfixEntries(tagList, hotfixTag) ==
    Map(SelectSeq(tagList,
                  LAMBDA name : StartsWith(name, BaseVersion(hotfixTag) \o HotfixMarker)),
        LAMBDA name : [name |-> name, number |-> HotfixNumber(name)])

\* The comparator (a, b) => b.number - a.number as sort reads it: the sign
\* of the difference, a NaN result counting as +0.
HotfixCompare(a, b) ==
    LET d == NumMinus(b.number, a.number)
    IN  IF d.nan THEN 0 ELSE IF d.val < 0 THEN -1 ELSE IF d.val > 0 THEN 1 ELSE 0

\* Whether the comparator is a consistent comparator for the elements of arr
\* (ECMAScript, Array.prototype.sort): equality under it is an equivalence,
\* and < and > under it are transitive.
ConsistentHotfixCompare(arr) ==
    \A i, j, k \in 1..Len(arr) :
        /\ HotfixCompare(arr[i], arr[i]) = 0
        /\ HotfixCompare(arr[i], arr[j]) = 0 => HotfixCompare(arr[j], arr[i]) = 0
        /\ (HotfixCompare(arr[i], arr[j]) = 0 /\ HotfixCompare(arr[j], arr[k]) = 0)
              => HotfixCompare(arr[i], arr[k]) = 0
        /\ (HotfixCompare(arr[i], arr[j]) < 0 /\ HotfixCompare(arr[j], arr[k]) < 0)
              => HotfixCompare(arr[i], arr[k]) < 0
        /\ (HotfixCompare(arr[i], arr[j]) > 0 /\ HotfixCompare(arr[j], arr[k]) > 0)
              => HotfixCompare(arr[i], arr[k]) > 0

\* x placed into the sorted sequence arr behind every element that does not
\* sort after it
RECURSIVE HotfixInsert(_, _)
HotfixInsert(arr, x) ==
    IF arr = <<>> THEN <<x>>
    ELSE IF HotfixCompare(arr[Len(arr)], x) <= 0 THEN Append(arr, x)
    ELSE Append(HotfixInsert(SubSeq(arr, 1, Len(arr) - 1), x), arr[Len(arr)])

\* the stable sort of arr under the comparator
RECURSIVE HotfixStableSort(_)
HotfixStableSort(arr) ==
    IF arr = <<>> THEN <<>>
    ELSE HotfixInsert(HotfixStableSort(SubSeq(arr, 1, Len(arr) - 1)), arr[Len(arr)])

\* .sort((a, b) => b.number - a.number): the stable sort when the comparator
\* is consistent; otherwise the order is implementation-defined, and every
\* ordering of the elements is an outcome.
HotfixSortOutcomes(arr) ==
    IF ConsistentHotfixCompare(arr) THEN {HotfixStableSort(arr)} ELSE Orderings(arr)

\* relatedHotfixes.find((tag) => tag.number < currentHotfixNum): its index, 0 when none
PreviousHotfix(sorted, hotfixTag) ==
    FindIndex(sorted, LAMBDA tag : NumLess(tag.number, CurrentHotfixNum(hotfixTag)))

\* The check of line 110 taking any tag of the base version for the base
\* release tag (startsWith(baseVersion) for === baseReleaseTag).
BaseReleaseMissing_AnyTagOfVersion(tagList, hotfixTag) ==
    ~Some(tagList, LAMBDA name : StartsWith(name, BaseVersion(hotfixTag)))

\* !tags.some((tag) => tag.name === baseReleaseTag)
BaseReleaseMissing(tagList, hotfixTag) ==
    ~Some(tagList, LAMBDA name : name = BaseReleaseTag(hotfixTag))

\* the value findHotfixRelatedTags returns
HotfixInfo(sorted, hotfixTag) ==
    [baseReleaseTag    |-> BaseReleaseTag(hotfixTag),
     previousHotfixTag |-> IF PreviousHotfix(sorted, hotfixTag) = 0 THEN Null
                           ELSE sorted[PreviousHotfix(sorted, hotfixTag)].name,
     previousTag       |-> Null,
     type              |-> "hotfix"]

\* --------------------------------------- findPreviousReleaseTag
\* Where \d+\.\d+\.\d+ ends when matched at index i of s; 0 when it does not
\* match there.  Each \d+ takes the whole run of digits: a shorter run is
\* followed by a digit, never by the "." the pattern wants next.
TripleEnd(s, i) ==
    LET a == DigitRun(From(s, i))
        b == DigitRun(From(s, i + a + 1))
        c == DigitRun(From(s, i + a + b + 2))
    IN  IF /\ a > 0
           /\ OccursAt(s, Dot, i + a)
           /\ b > 0
           /\ OccursAt(s, Dot, i + a + b + 1)
           /\ c > 0
        THEN i + a + b + c + 1
        ELSE 0

\* Group 1 of /v?(\d+\.\d+\.\d+)/ matched at index i of s; Null when the
\* pattern does not match there.
VersionAt(s, i) ==
    IF s[i] = "v" /\ TripleEnd(s, i + 1) # 0
        THEN SubSeq(s, i + 1, TripleEnd(s, i + 1))
    ELSE IF TripleEnd(s, i) # 0
        THEN SubSeq(s, i, TripleEnd(s, i))
    ELSE Null

\* getVersionNumber: group 1 of the leftmost match, or null
getVersionNumber(tag) ==
    IF \E i \in 1..Len(tag) : VersionAt(tag, i) # Null
    THEN VersionAt(tag, CHOOSE i \in 1..Len(tag) :
                            /\ VersionAt(tag, i) # Null
                            /\ \A j \in 1..(i - 1) : VersionAt(tag, j) = Null)
    ELSE Null

\* version.split(".").map(Number)
VersionParts(version) == Map(Split(version, Dot), LAMBDA p : ToNumber(p))

\* The filter of line 166: tag.version && tag.version < currentVersion
LowerVersion(version, currentVersion) ==
    /\ version # Null
    /\ version # <<>>
    /\ StringLess(version, currentVersion)

\* The comparator of lines 167-174: major, minor, patch, descending
ReleaseCompare(a, b) ==
    LET x == VersionParts(a.version)
        y == VersionParts(b.version)
    IN  IF x[1] # y[1] THEN y[1] - x[1]
        ELSE IF x[2] # y[2] THEN y[2] - x[2]
        ELSE y[3] - x[3]

RECURSIVE ReleaseInsert(_, _)
ReleaseInsert(arr, x) ==
    IF arr = <<>> THEN <<x>>
    ELSE IF ReleaseCompare(arr[Len(arr)], x) <= 0 THEN Append(arr, x)
    ELSE Append(ReleaseInsert(SubSeq(arr, 1, Len(arr) - 1), x), arr[Len(arr)])

\* .sort(comparator): stable; the comparator is a total preorder on triples
RECURSIVE ReleaseStableSort(_)
ReleaseStableSort(arr) ==
    IF arr = <<>> THEN <<>>
    ELSE ReleaseInsert(ReleaseStableSort(SubSeq(arr, 1, Len(arr) - 1)), arr[Len(arr)])

\* releaseTags of lines 160-174
ReleaseTags(tagList, tag) ==
    ReleaseStableSort(
        SelectSeq(
            Map(SelectSeq(tagList, LAMBDA name : EndsWith(name, ReleaseSuffix)),
                LAMBDA name : [name |-> name, version |-> getVersionNumber(name)]),
            LAMBDA t : LowerVersion(t.version, getVersionNumber(tag))))

\* the value findPreviousReleaseTag returns
ReleaseInfo(sorted) ==
    [baseReleaseTag    |-> Null,
     previousHotfixTag |-> Null,
     previousTag       |-> sorted[1].name,
     type              |-> "release"]

\* releaseInfo before a resolver has returned
NoInfo ==
    [baseReleaseTag |-> Null, previousHotfixTag |-> Null, previousTag |-> Null,
     type |-> "none"]

\* An Error: the text of its message and the value interpolated into it.
Error(text, arg) == [text |-> text, arg |-> arg]

\* ------------------------------------------ parseConventionalCommit
\* "\n"
Newline == <<"\n">>

\* the length of the longest run of word characters starting s: \w+ takes
\* the whole run, since what follows it in both patterns is no word character
RECURSIVE WordRun(_)
WordRun(s) ==
    IF s # <<>> /\ IsWordChar(Head(s)) THEN 1 + WordRun(Tail(s)) ELSE 0

\* the length of the longest run of white space starting s
RECURSIVE SpaceRun(_)
SpaceRun(s) ==
    IF s # <<>> /\ IsSpace(Head(s)) THEN 1 + SpaceRun(Tail(s)) ELSE 0

\* s holds a line terminator, which `.` does not match
HasLineTerminator(s) == \E i \in 1..Len(s) : IsLineTerminator(s[i])

\* Group subject of \s*(?<subject>.+)$ matched against the rest of the
\* message; Null when it does not match.  There is no m flag: $ is the end
\* of the whole message, so .+ has to reach it without crossing a line
\* terminator.  \s* first takes all the white space; when nothing is left
\* for .+ it gives back its last character.
SubjectOf(rest) ==
    LET w == SpaceRun(rest)
        t == From(rest, w + 1)
    IN  IF t # <<>>
        THEN IF HasLineTerminator(t) THEN Null ELSE t
        ELSE IF w > 0 /\ ~IsLineTerminator(rest[w]) THEN <<rest[w]>> ELSE Null

\* A parsed commit; a failed match is NoMatch.
Parsed(type, scope, subject) == [type |-> type, scope |-> scope, subject |-> subject]

NoMatch == Parsed(Null, Null, Null)

\* message.match(scopeRegex).groups for
\* /^(?<type>\w+)\((?<scope>[^)]+)\):\s*(?<subject>.+)$/
ScopeMatch(message) ==
    LET t     == WordRun(message)
        close == IndexOf(From(message, t + 2), <<")">>)
        scope == SubSeq(message, t + 2, t + close)
        rest  == From(message, t + close + 3)
    IN  IF /\ t > 0
           /\ OccursAt(message, <<"(">>, t + 1)
           /\ close > 1
           /\ OccursAt(message, <<":">>, t + close + 2)
           /\ SubjectOf(rest) # Null
        THEN Parsed(SubSeq(message, 1, t), scope, SubjectOf(rest))
        ELSE NoMatch

\* message.match(noScopeRegex).groups for /^(?<type>\w+):\s*(?<subject>.+)$/
NoScopeMatch(message) ==
    LET t    == WordRun(message)
        rest == From(message, t + 2)
    IN  IF /\ t > 0
           /\ OccursAt(message, <<":">>, t + 1)
           /\ SubjectOf(rest) # Null
        THEN Parsed(SubSeq(message, 1, t), <<>>, SubjectOf(rest))
        ELSE NoMatch

\* "other"
Other == <<"o", "t", "h", "e", "r">>

parseConventionalCommit(message) ==
    IF ScopeMatch(message) # NoMatch THEN ScopeMatch(message)
    ELSE IF NoScopeMatch(message) # NoMatch THEN NoScopeMatch(message)
    ELSE Parsed(Other, <<>>, Piece(Split(message, Newline), 0))

\* ----------------------------------------------------- parseCommits
Feat == <<"f", "e", "a", "t">>

Fix == <<"f", "i", "x">>

Perf == <<"p", "e", "r", "f">>

Refactor == <<"r", "e", "f", "a", "c", "t", "o", "r">>

Style == <<"s", "t", "y", "l", "e">>

\* The names Object.prototype gives every object literal, commitTypeMap
\* included: constructor, toString, toLocaleString, valueOf, hasOwnProperty,
\* isPrototypeOf, propertyIsEnumerable, __proto__, __defineGetter__,
\* __defineSetter__, __lookupGetter__, __lookupSetter__.
ObjectPrototypeNames ==
    {<<"c", "o", "n", "s", "t", "r", "u", "c", "t", "o", "r">>,
     <<"t", "o", "S", "t", "r", "i", "n", "g">>,
     <<"t", "o", "L", "o", "c", "a", "l", "e", "S", "t", "r", "i", "n", "g">>,
     <<"v", "a", "l", "u", "e", "O", "f">>,
     <<"h", "a", "s", "O", "w", "n", "P", "r", "o", "p", "e", "r", "t", "y">>,
     <<"i", "s", "P", "r", "o", "t", "o", "t", "y", "p", "e", "O", "f">>,
     <<"p", "r", "o", "p", "e", "r", "t", "y", "I", "s", "E", "n", "u", "m", "e", "r", "a", "b", "l", "e">>,
     <<"_", "_", "p", "r", "o", "t", "o", "_", "_">>,
     <<"_", "_", "d", "e", "f", "i", "n", "e", "G", "e", "t", "t", "e", "r", "_", "_">>,
     <<"_", "_", "d", "e", "f", "i", "n", "e", "S", "e", "t", "t", "e", "r", "_", "_">>,
     <<"_", "_", "l", "o", "o", "k", "u", "p", "G", "e", "t", "t", "e", "r", "_", "_">>,
     <<"_", "_", "l", "o", "o", "k", "u", "p", "S", "e", "t", "t", "e", "r", "_", "_">>}

\* The keys of the sections object.
SectionNames == {"features", "improvements", "bugfixes"}

\* commitTypeMap[type]: the section of an own key; for a name inherited from
\* Object.prototype a function or object ("inherited": truthy, and no key of
\* sections); undefined otherwise.
commitTypeMap(type) ==
    IF type = Feat THEN "features"
    ELSE IF type = Fix THEN "bugfixes"
    ELSE IF type \in {Perf, Refactor, Style} THEN "improvements"
    ELSE IF type \in ObjectPrototypeNames THEN "inherited"
    ELSE "undefined"

\* scope.match(/^[A-Za-z]+-\d+$/)
RECURSIVE LetterRun(_)
LetterRun(s) ==
    IF s # <<>> /\ IsLetter(Head(s)) THEN 1 + LetterRun(Tail(s)) ELSE 0

IsTicket(scope) ==
    LET a == LetterRun(scope)
        d == DigitRun(From(scope, a + 2))
    IN  /\ a > 0
        /\ OccursAt(scope, <<"-">>, a + 1)
        /\ d > 0
        /\ a + 1 + d = Len(scope)

\* " - "
Dash == <<" ", "-", " ">>

\* baseTitle of lines 252-254
BaseTitle(p, authorName) ==
    IF p.scope # <<>>
    THEN p.scope \o Dash \o p.subject \o Dash \o authorName
    ELSE p.subject \o Dash \o authorName

\* title of lines 256-262
Title(p, authorName, linearUrl) ==
    IF linearUrl # Null /\ linearUrl # <<>> /\ p.scope # <<>> /\ IsTicket(p.scope)
    THEN <<"[">> \o BaseTitle(p, authorName) \o <<"]", "(">>
            \o linearUrl \o <<"/">> \o p.scope \o <<")">>
    ELSE BaseTitle(p, authorName)

\* { title, details: [] }
Entry(title) == [title |-> title, details |-> <<>>]

\* sections of lines 230-234
EmptySections == [features |-> <<>>, improvements |-> <<>>, bugfixes |-> <<>>]

\* The state of the forEach of parseCommits: the sections so far and
\* whether a TypeError has been thrown.
Classified(secs, thrown) == [sections |-> secs, thrown |-> thrown]

\* unshift for push: the entry goes to the front of its section.
Push_Unshift(secs, section, entry) == [secs EXCEPT ![section] = <<entry>> \o @]

\* sections[section].push(entry)
Push(secs, section, entry) == [secs EXCEPT ![section] = Append(@, entry)]

\* One call of the forEach callback, lines 244-269.  sections[section] is
\* undefined when section is no key of sections, and .push on it throws.
ClassifyOne(acc, commit, linearUrl) ==
    LET p       == parseConventionalCommit(commit.message)
        section == commitTypeMap(p.type)
    IN  IF acc.thrown \/ section = "undefined" THEN acc
        ELSE IF section \notin SectionNames THEN Classified(acc.sections, TRUE)
        ELSE Classified(Push(acc.sections, section,
                             Entry(Title(p, commit.authorName, linearUrl))),
                        FALSE)

\* parseCommits: the forEach over the commits, in order
RECURSIVE parseCommits(_, _)
parseCommits(commitList, linearUrl) ==
    IF commitList = <<>> THEN Classified(EmptySections, FALSE)
    ELSE ClassifyOne(parseCommits(SubSeq(commitList, 1, Len(commitList) - 1), linearUrl),
                     commitList[Len(commitList)], linearUrl)

\* ------------------------------------------------ formatReleaseNotes
\* The markdown of formatReleaseNotes, by its parts: the heading, the date,
\* the hotfix lines, and per section the bullet titles (an empty section has
\* no heading and no bullets).
formatReleaseNotes(productName, version, releaseDate, secs, hotfix, info) ==
    [heading      |-> IF hotfix THEN "Hotfix" ELSE "Release",
     product      |-> productName,
     version      |-> version,
     releaseDate  |-> releaseDate,
     baseRelease  |-> IF hotfix THEN info.baseReleaseTag ELSE Null,
     changesSince |-> IF hotfix /\ info.previousHotfixTag # Null
                      THEN info.previousHotfixTag ELSE Null,
     features     |-> Map(secs.features, LAMBDA e : e.title),
     improvements |-> Map(secs.improvements, LAMBDA e : e.title),
     bugfixes     |-> Map(secs.bugfixes, LAMBDA e : e.title)]

\* ----------------------------------------------------------- inputs
\* Tag names of the model's repositories.
T_v1_10_0_release == <<"v", "1", ".", "1", "0", ".", "0", "-", "r", "e", "l", "e", "a", "s", "e">>

T_v1_9_0_release == <<"v", "1", ".", "9", ".", "0", "-", "r", "e", "l", "e", "a", "s", "e">>

T_v1_0_0_release == <<"v", "1", ".", "0", ".", "0", "-", "r", "e", "l", "e", "a", "s", "e">>

T_v0_9_0_release == <<"v", "0", ".", "9", ".", "0", "-", "r", "e", "l", "e", "a", "s", "e">>

T_v1_0_0 == <<"v", "1", ".", "0", ".", "0">>

T_v0_9_0 == <<"v", "0", ".", "9", ".", "0">>

T_v2_release == <<"v", "2", "-", "r", "e", "l", "e", "a", "s", "e">>

T_v1_release == <<"v", "1", "-", "r", "e", "l", "e", "a", "s", "e">>

T_v2 == <<"v", "2">>

T_v1_9_0 == <<"v", "1", ".", "9", ".", "0">>

T_v1_10_0 == <<"v", "1", ".", "1", "0", ".", "0">>

T_v1_0_0_hotfix == <<"v", "1", ".", "0", ".", "0", "-", "h", "o", "t", "f", "i", "x">>

T_v1_0_0_hotfix1 == <<"v", "1", ".", "0", ".", "0", "-", "h", "o", "t", "f", "i", "x", "1">>

T_v1_0_0_hotfix2 == <<"v", "1", ".", "0", ".", "0", "-", "h", "o", "t", "f", "i", "x", "2">>

T_v1_0_0_hotfix3 == <<"v", "1", ".", "0", ".", "0", "-", "h", "o", "t", "f", "i", "x", "3">>

T_v1_0_0_hotfix10 == <<"v", "1", ".", "0", ".", "0", "-", "h", "o", "t", "f", "i", "x", "1", "0">>

T_v1_0_0_hotfixes == <<"v", "1", ".", "0", ".", "0", "-", "h", "o", "t", "f", "i", "x", "e", "s">>

T_v0_9_0_hotfix1 == <<"v", "0", ".", "9", ".", "0", "-", "h", "o", "t", "f", "i", "x", "1">>

\* The tags a listTags response to findPreviousReleaseTag is drawn from.
ReleaseTagPool ==
    {T_v1_10_0_release, T_v1_9_0_release, T_v1_0_0_release, T_v0_9_0_release,
     T_v1_0_0, T_v0_9_0, T_v2_release, T_v1_release, T_v2}

\* The tags a listTags response to findHotfixRelatedTags is drawn from.
HotfixTagPool ==
    {T_v1_0_0_release, T_v1_0_0_hotfix1, T_v1_0_0_hotfix2, T_v1_0_0_hotfix10,
     T_v1_0_0_hotfixes, T_v0_9_0_hotfix1}

\* A listTags response: up to max tags of the pool, each name once (a
\* repository has one tag of a name), in any order.
TagLists(pool, max) ==
    UNION {{s \in [1..n -> pool] : \A i, j \in 1..n : s[i] = s[j] => i = j} :
              n \in 0..max}

\* The values of the input "tag".
ReleaseIdentifiers == {T_v1_10_0, T_v1_9_0, T_v1_0_0, T_v2}

HotfixIdentifiers == {T_v1_0_0_hotfix, T_v1_0_0_hotfix2, T_v1_0_0_hotfix3}

\* The values of the input "tag-format": unset.
TagFormatInputs == {<<>>}

\* The values of the input "linear-url": unset, or a base URL.
LinearUrlInputs == {<<>>, <<"h", "t", "t", "p", "s", ":", "/", "/", "x", "/", "y">>}

\* The input "product-name" and the date of the run.
ProductName == <<"P">>

ReleaseDate == <<"2", "0", "2", "4", "-", "1", "1", "-", "2", "7">>

\* Commit messages of the model's compareCommits responses.
M_feat == <<"f", "e", "a", "t", ":", " ", "a", "d", "d", " ", "x">>

M_feat_body == <<"f", "e", "a", "t", ":", " ", "a", "d", "d", " ", "x", "\n", "\n", "b", "o", "d", "y">>

M_fix_scope == <<"f", "i", "x", "(", "E", "N", "G", "-", "4", "2", ")", ":", " ", "y">>

M_chore == <<"c", "h", "o", "r", "e", ":", " ", "b", "u", "m", "p", " ", "d", "e", "p", "s">>

M_perf == <<"p", "e", "r", "f", "(", "c", "o", "r", "e", ")", ":", " ", "z">>

M_ctor == <<"c", "o", "n", "s", "t", "r", "u", "c", "t", "o", "r", ":", " ", "q">>

M_plain == <<"u", "p", "d", "a", "t", "e", " ", "r", "e", "a", "d", "m", "e">>

M_fix_gap == <<"f", "i", "x", ":", "\n", "b">>

Jo == <<"J", "o">>

\* commit.commit of a compareCommits response
Commit(message, authorName) == [message |-> message, authorName |-> authorName]

CommitPool ==
    {Commit(M_feat, Jo), Commit(M_feat_body, Jo), Commit(M_fix_scope, Jo),
     Commit(M_chore, Jo), Commit(M_perf, Jo), Commit(M_ctor, Jo),
     Commit(M_plain, Jo), Commit(M_fix_gap, Jo)}

\* A compareCommits response: up to MaxCommits commits of the pool.
CommitLists == UNION {[1..n -> CommitPool] : n \in 0..MaxCommits}

\* ------------------------------------------------------------ run()
\* core.setFailed(`Action failed: ${error.message}`)
setFailed(error) == [failed |-> TRUE, text |-> error.text, arg |-> error.arg]

NoFailure == [failed |-> FALSE, text |-> "", arg |-> <<>>]

Init ==
    /\ pc = "start"
    /\ currentTag = <<>>
    /\ tagFormat = <<>>
    /\ linearBaseUrl = Null
    /\ isHotfix = FALSE
    /\ tags = <<>>
    /\ relatedHotfixes = <<>>
    /\ releaseTags = <<>>
    /\ releaseInfo = NoInfo
    /\ baseTag = Null
    /\ compareTag = Null
    /\ requests = <<>>
    /\ commits = <<>>
    /\ sections = EmptySections
    /\ posted = <<>>
    /\ output = ""
    /\ failure = NoFailure

\* Lines 16-28: the inputs are read.
GetInputs ==
    /\ pc = "start"
    /\ \E tag \in ReleaseIdentifiers \cup HotfixIdentifiers,
          format \in TagFormatInputs, url \in LinearUrlInputs :
          /\ currentTag' = tag
          /\ tagFormat' = OrElse(format, DefaultTagFormat)
          /\ linearBaseUrl' = OrElse(url, Null)
          /\ isHotfix' = Includes(tag, HotfixMarker)
    /\ pc' = "resolving"
    /\ UNCHANGED <<tags, relatedHotfixes, releaseTags, releaseInfo, baseTag,
                   compareTag, requests, commits, sections, posted, output, failure>>

\* The error is reported and the run goes on as if the step had succeeded.
Fail_RunGoesOn(error) ==
    /\ failure' = setFailed(error)
    /\ pc' = "resolved"

\* The catch of run(), lines 89-91: the run ends failed with the message.
Fail(error) ==
    /\ failure' = setFailed(error)
    /\ pc' = "failed"

\* listTags rejects; either resolver rethrows, and run() fails.
ListTagsFails ==
    /\ pc = "resolving"
    /\ Fail(Error("listTags request failed", <<>>))
    /\ UNCHANGED <<currentTag, tagFormat, linearBaseUrl, isHotfix, tags,
                   relatedHotfixes, releaseTags, releaseInfo, baseTag,
                   compareTag, requests, commits, sections, posted, output>>

\* Lines 32-36 and findHotfixRelatedTags, from the listTags response on.
FindHotfixRelatedTags ==
    /\ pc = "resolving"
    /\ isHotfix
    /\ \E tagList \in TagLists(HotfixTagPool, MaxHotfixTags) :
          /\ tags' = tagList
          /\ IF BaseReleaseMissing(tagList, currentTag)
             THEN /\ Fail(Error("Could not find base release tag: ",
                                BaseReleaseTag(currentTag)))
                  /\ UNCHANGED <<relatedHotfixes, releaseInfo, baseTag, compareTag>>
             ELSE \E sorted \in HotfixSortOutcomes(HotfixEntries(tagList, currentTag)) :
                      LET info == HotfixInfo(sorted, currentTag)
                      IN  /\ relatedHotfixes' = sorted
                          /\ releaseInfo' = info
                          /\ baseTag' = OrElse(info.previousHotfixTag, info.baseReleaseTag)
                          /\ compareTag' = currentTag
                          /\ pc' = "resolved"
                          /\ UNCHANGED failure
    /\ UNCHANGED <<currentTag, tagFormat, linearBaseUrl, isHotfix, releaseTags,
                   requests, commits, sections, posted, output>>

\* Lines 37-47 and findPreviousReleaseTag, from the listTags response on.
FindPreviousReleaseTag ==
    /\ pc = "resolving"
    /\ ~isHotfix
    /\ \E tagList \in TagLists(ReleaseTagPool, MaxReleaseTags) :
          /\ tags' = tagList
          /\ IF getVersionNumber(currentTag) = Null
             THEN /\ Fail(Error("Invalid version format in tag: ", currentTag))
                  /\ UNCHANGED <<releaseTags, releaseInfo, baseTag, compareTag>>
             ELSE LET sorted == ReleaseTags(tagList, currentTag)
                  IN  /\ releaseTags' = sorted
                      /\ IF sorted = <<>>
                         THEN /\ Fail(Error("No previous release tag found before ",
                                            currentTag))
                              /\ UNCHANGED <<releaseInfo, baseTag, compareTag>>
                         ELSE /\ releaseInfo' = ReleaseInfo(sorted)
                              /\ baseTag' = ReleaseInfo(sorted).previousTag
                              /\ compareTag' = currentTag
                              /\ pc' = "resolved"
                              /\ UNCHANGED failure
    /\ UNCHANGED <<currentTag, tagFormat, linearBaseUrl, isHotfix, relatedHotfixes,
                   requests, commits, sections, posted, output>>

\* Lines 50-55 and getCommitsBetweenTags: the compareCommits request goes
\* out; the resolver's locals are gone.
RequestCommits ==
    /\ pc = "resolved"
    /\ requests' = Append(requests, [base |-> baseTag, head |-> compareTag])
    /\ tags' = <<>>
    /\ relatedHotfixes' = <<>>
    /\ releaseTags' = <<>>
    /\ pc' = "comparing"
    /\ UNCHANGED <<currentTag, tagFormat, linearBaseUrl, isHotfix, releaseInfo,
                   baseTag, compareTag, commits, sections, posted, output, failure>>

\* compareCommits rejects: getCommitsBetweenTags rethrows, and run() fails.
CompareCommitsFails ==
    /\ pc = "comparing"
    /\ Fail(Error("compareCommits request failed", <<>>))
    /\ UNCHANGED <<currentTag, tagFormat, linearBaseUrl, isHotfix, tags,
                   relatedHotfixes, releaseTags, releaseInfo, baseTag,
                   compareTag, requests, commits, sections, posted, output>>

\* The card of lines 59-85, by the text of its one TextBlock.
Message(secs) ==
    [type |-> "message",
     text |-> formatReleaseNotes(ProductName, currentTag, ReleaseDate, secs,
                                 isHotfix, releaseInfo)]

\* Lines 57-87, from the compareCommits response on: the commits are
\* classified and the card is posted; a TypeError thrown by parseCommits
\* fails the run.
ReceiveCommits ==
    /\ pc = "comparing"
    /\ \E commitList \in CommitLists :
          LET result == parseCommits(commitList, linearBaseUrl)
          IN  /\ commits' = commitList
              /\ IF result.thrown
                 THEN /\ Fail(Error("Cannot read properties of undefined (reading 'push')",
                                    <<>>))
                      /\ UNCHANGED <<sections, posted>>
                 ELSE /\ sections' = result.sections
                      /\ posted' = Append(posted, Message(result.sections))
                      /\ pc' = "posting"
                      /\ UNCHANGED failure
    /\ UNCHANGED <<currentTag, tagFormat, linearBaseUrl, isHotfix, tags,
                   relatedHotfixes, releaseTags, releaseInfo, baseTag,
                   compareTag, requests, output>>

\* Line 88: the post succeeded, and the status output is set.
PostSucceeds ==
    /\ pc = "posting"
    /\ output' = "Release notes posted successfully"
    /\ pc' = "done"
    /\ UNCHANGED <<currentTag, tagFormat, linearBaseUrl, isHotfix, tags,
                   relatedHotfixes, releaseTags, releaseInfo, baseTag,
                   compareTag, requests, commits, sections, posted, failure>>

\* axios.post rejects, and run() fails.
PostFails ==
    /\ pc = "posting"
    /\ Fail(Error("webhook post failed", <<>>))
    /\ UNCHANGED <<currentTag, tagFormat, linearBaseUrl, isHotfix, tags,
                   relatedHotfixes, releaseTags, releaseInfo, baseTag,
                   compareTag, requests, commits, sections, posted, output>>

Next ==
    \/ GetInputs
    \/ ListTagsFails
    \/ FindHotfixRelatedTags
    \/ FindPreviousReleaseTag
    \/ RequestCommits
    \/ CompareCommitsFails
    \/ ReceiveCommits
    \/ PostSucceeds
    \/ PostFails

Spec == Init /\ [][Next]_vars

\* ============================================================ claims
\* The spec's words, stated over the state of run().

\* The identifier rendered through the tag format: "{tag}" replaced by it.
TagPlaceholder == <<"{", "t", "a", "g", "}">>

CurrentReleaseTag ==
    LET i == IndexOf(tagFormat, TagPlaceholder)
    IN  IF i = 0 THEN tagFormat
        ELSE SubSeq(tagFormat, 1, i - 1) \o currentTag
                \o From(tagFormat, i + Len(TagPlaceholder))

\* (major, minor, patch) of x below that of y, compared as integers in that
\* priority order
TripleLess(x, y) ==
    \/ x[1] < y[1]
    \/ x[1] = y[1] /\ x[2] < y[2]
    \/ x[1] = y[1] /\ x[2] = y[2] /\ x[3] < y[3]

\* The triple embedded in a name.
TripleOf(name) == VersionParts(getVersionNumber(name))

\* A "-release" tag with a triple numerically below the identifier's.
NumericallyLower(name) ==
    /\ EndsWith(name, ReleaseSuffix)
    /\ getVersionNumber(name) # Null
    /\ TripleLess(TripleOf(name), TripleOf(currentTag))

\* The error kind of the spec a failure message of the code stands for; no
\* message of the code stands for TagNotFound.
ErrorKind(text) ==
    CASE text = "Could not find base release tag: " -> "BaseReleaseNotFound"
      [] text = "Invalid version format in tag: " -> "InvalidVersionFormat"
      [] text = "No previous release tag found before " -> "NoPreviousRelease"
      [] OTHER -> "none"

\* The tag list is in, and findPreviousReleaseTag has just returned or
\* thrown: no compareCommits request has gone out yet.
ReleaseResolverRan ==
    /\ ~isHotfix
    /\ pc \in {"resolved", "failed"}
    /\ failure.text # "listTags request failed"
    /\ requests = <<>>

\* ... and the identifier holds a triple, so that the filter has run.
SemverFilterRan == ReleaseResolverRan /\ getVersionNumber(currentTag) # Null

\* The tag list is in, and findHotfixRelatedTags has just returned or
\* thrown.
HotfixResolverRan ==
    /\ isHotfix
    /\ pc \in {"resolved", "failed"}
    /\ failure.text # "listTags request failed"
    /\ requests = <<>>

\* name is a tag of the list
InTags(name) == \E i \in 1..Len(tags) : tags[i] = name

\* C1: a "-release" tag with a parseable triple T is eligible as base (is
\* among releaseTags) if and only if T is below the identifier's triple
\* compared per component as integers.
C1_NumericEligibility ==
    SemverFilterRan =>
        \A i \in 1..Len(tags) :
            (EndsWith(tags[i], ReleaseSuffix) /\ getVersionNumber(tags[i]) # Null)
                => ((\E k \in 1..Len(releaseTags) : releaseTags[k].name = tags[i])
                        <=> TripleLess(TripleOf(tags[i]), TripleOf(currentTag)))

\* C2: a returned base is a "-release" tag numerically below the identifier,
\* no "-release" tag of the list lies numerically between the two, and the
\* resolution fails with NoPreviousRelease exactly when the list has no
\* "-release" tag numerically below the identifier.
C2_NearestLowerRelease ==
    SemverFilterRan =>
        /\ pc = "resolved" =>
              /\ NumericallyLower(baseTag)
              /\ \A i \in 1..Len(tags) :
                    NumericallyLower(tags[i])
                        => ~TripleLess(TripleOf(baseTag), TripleOf(tags[i]))
        /\ (pc = "failed" /\ ErrorKind(failure.text) = "NoPreviousRelease")
              <=> ~\E i \in 1..Len(tags) : NumericallyLower(tags[i])

\* The index of the current release tag in the list; 0 when it is absent.
CurrentReleaseIndex == IndexOf(tags, <<CurrentReleaseTag>>)

\* The indexes behind the current release tag that hold a "-release" tag.
LaterReleases ==
    {j \in 1..Len(tags) :
        /\ CurrentReleaseIndex # 0
        /\ j > CurrentReleaseIndex
        /\ EndsWith(tags[j], ReleaseSuffix)}

\* C3: with the current release tag in the list and a "-release" tag behind
\* it, the base is the first such tag in list order and the head is the
\* current release tag, whether or not the identifier holds a triple.
C3_SequentialWindow ==
    (ReleaseResolverRan /\ LaterReleases # {}) =>
        /\ pc = "resolved"
        /\ baseTag = tags[CHOOSE j \in LaterReleases : \A k \in LaterReleases : j <= k]
        /\ compareTag = CurrentReleaseTag

\* C4: with the current release tag absent from the list, the resolution of
\* a non-hotfix identifier fails with TagNotFound and returns no window.
C4_TagNotFound ==
    (ReleaseResolverRan /\ ~InTags(CurrentReleaseTag)) =>
        /\ pc = "failed"
        /\ ErrorKind(failure.text) = "TagNotFound"
        /\ baseTag = Null
        /\ compareTag = Null

\* C5: the head of every compareCommits request of a non-hotfix release is
\* the current release tag, not the bare identifier.
C5_HeadIsReleaseTag ==
    ~isHotfix =>
        \A i \in 1..Len(requests) : requests[i].head = CurrentReleaseTag

\* The base version of a hotfix identifier: what precedes "-hotfix".
ClaimedBaseVersion == SubSeq(currentTag, 1, IndexOf(currentTag, HotfixMarker) - 1)

\* "{baseVersion}-release"
ClaimedBaseRelease == ClaimedBaseVersion \o ReleaseSuffix

\* The tags of the list whose name starts with "{baseVersion}-hotfix" and
\* whose hotfix number is below the identifier's.
LowerHotfixes ==
    {i \in 1..Len(tags) :
        /\ StartsWith(tags[i], ClaimedBaseVersion \o HotfixMarker)
        /\ NumLess(HotfixNumber(tags[i]), HotfixNumber(currentTag))}

\* C6: with the base release tag in the list, the base of a hotfix window is
\* a tag of the highest hotfix number below the identifier's among the tags
\* starting with "{baseVersion}-hotfix", whatever the order of the list, the
\* base release tag when there is none, and the head is the identifier.
C6_HotfixBase ==
    (HotfixResolverRan /\ InTags(ClaimedBaseRelease)) =>
        /\ pc = "resolved"
        /\ compareTag = currentTag
        /\ IF LowerHotfixes = {} THEN baseTag = ClaimedBaseRelease
           ELSE \E i \in LowerHotfixes :
                    /\ baseTag = tags[i]
                    /\ \A j \in LowerHotfixes :
                          ~NumLess(HotfixNumber(tags[i]), HotfixNumber(tags[j]))

\* C7: without "{baseVersion}-release" in the list the hotfix resolution
\* fails with BaseReleaseNotFound, an error kind of its own, naming the tag,
\* and returns no window, whatever hotfix tags the list holds.
C7_BaseReleaseNotFound ==
    (HotfixResolverRan /\ ~InTags(ClaimedBaseRelease)) =>
        /\ pc = "failed"
        /\ ErrorKind(failure.text) = "BaseReleaseNotFound"
        /\ failure.arg = ClaimedBaseRelease
        /\ releaseInfo = NoInfo
        /\ baseTag = Null
        /\ compareTag = Null

\* C7's case: the base release tag is missing while a lower-numbered hotfix
\* tag of the same base version is in the list.
C7_Witness ==
    /\ HotfixResolverRan
    /\ currentTag = T_v1_0_0_hotfix2
    /\ ~InTags(ClaimedBaseRelease)
    /\ InTags(T_v1_0_0_hotfix1)
    /\ pc = "failed"

\* The first line of a message.
FirstLine(message) == Piece(Split(message, Newline), 0)

\* The first line is of the form type(scope): subject or type: subject.
Conventional(line) == ScopeMatch(line) # NoMatch \/ NoScopeMatch(line) # NoMatch

\* The commits with every message cut to its first line.
FirstLines(commitList) ==
    Map(commitList, LAMBDA c : Commit(FirstLine(c.message), c.authorName))

\* parseCommits has returned: the card has been posted.
Classified_Returned == posted # <<>>

\* C8: a commit whose first line is conventional parses to the type, scope
\* and subject of its first line alone; and when every commit's first line
\* is conventional, the sections are those of the commits cut to their
\* first lines (same categories, same titles).
C8_FirstLineOnly ==
    Classified_Returned =>
        /\ \A i \in 1..Len(commits) :
              Conventional(FirstLine(commits[i].message))
                  => parseConventionalCommit(commits[i].message)
                        = parseConventionalCommit(FirstLine(commits[i].message))
        /\ (\A i \in 1..Len(commits) : Conventional(FirstLine(commits[i].message)))
              => sections = parseCommits(FirstLines(commits), linearBaseUrl).sections

\* C9: parseCommits never raises, and its sections have exactly the keys
\* features, improvements and bugfixes.
C9_ClassifierNeverRaises ==
    /\ failure.text # "Cannot read properties of undefined (reading 'push')"
    /\ DOMAIN sections = SectionNames

\* The category the claim gives a parsed type; "none" for every other type.
ClaimedCategory(type) ==
    CASE type = Feat -> "features"
      [] type = Fix -> "bugfixes"
      [] type = Perf -> "improvements"
      [] type = Refactor -> "improvements"
      [] type = Style -> "improvements"
      [] OTHER -> "none"

\* The entries of the commits of one category, in input order.
ClaimedEntries(category) ==
    Map(SelectSeq(commits,
                  LAMBDA c : ClaimedCategory(parseConventionalCommit(c.message).type)
                                = category),
        LAMBDA c : Entry(Title(parseConventionalCommit(c.message), c.authorName,
                               linearBaseUrl)))

\* C10: each category of the returned sections holds one entry per commit
\* whose parsed type maps to it, in input order, and nothing else.
C10_EntriesInInputOrder ==
    Classified_Returned =>
        \A category \in SectionNames : sections[category] = ClaimedEntries(category)

\* C10's case: two different fix commits and nothing else, both in bugfixes.
C10_Witness ==
    /\ Classified_Returned
    /\ commits = <<Commit(M_fix_scope, Jo), Commit(M_fix_gap, Jo)>>
    /\ Len(sections.bugfixes) = 2

\* The run was marked failed by an error of the tag resolution: one thrown
\* by a resolver, or the listTags request rejected.
ResolutionFailed ==
    /\ failure.failed
    /\ failure.text \in {"Could not find base release tag: ",
                         "Invalid version format in tag: ",
                         "No previous release tag found before ",
                         "listTags request failed"}

\* C11: once the tag resolution has failed the run is over, marked failed
\* with the error's message, with no compareCommits request, no webhook post
\* and no status output, and nothing happens afterwards; a compareCommits
\* request goes out only after a resolver has returned, the webhook post
\* only on the compareCommits response of a resolved run, and the status
\* output is set only by the step that follows a post, ending the run.
C11_NoPartialOutput ==
    /\ [](ResolutionFailed =>
            (pc = "failed" /\ requests = <<>> /\ posted = <<>> /\ output = ""))
    /\ [][pc # "failed"]_vars
    /\ [][requests' # requests =>
            (pc = "resolved" /\ releaseInfo # NoInfo /\ ~failure.failed)]_vars
    /\ [][posted' # posted =>
            (pc = "comparing" /\ requests # <<>> /\ releaseInfo # NoInfo
                /\ ~failure.failed /\ pc' = "posting")]_vars
    /\ [][output' # output =>
            (pc = "posting" /\ posted # <<>> /\ ~failure.failed /\ pc' = "done")]_vars

\* C11's case: a resolver has thrown on a tag list it was given, and the run
\* has ended failed with nothing requested, posted or set.
C11_Witness ==
    /\ ResolutionFailed
    /\ tags # <<>>
    /\ failure.text = "No previous release tag found before "
    /\ failure.arg = currentTag
    /\ pc = "failed"
    /\ requests = <<>>
    /\ posted = <<>>
    /\ output = ""

====
